---- MODULE Spec2Model ----
(***************************************************************************)
(* The WebSocket gateway of api/src/websocket/controllers/index.ts:        *)
(* SocketController with its upgrade paths (public, handshake, strict),    *)
(* the per-connection message handler, the token-expiry timers, the        *)
(* periodic sweep and terminate().                                         *)
(*                                                                         *)
(* Time is counted in ticks of one sweep interval (15 minutes) and kept    *)
(* relative to Date.now(): an expiry time is held as the time left until   *)
(* it (expires_at * 1000 - Date.now()), a timer as the delay left until it *)
(* fires, and Tick ages them all.                                          *)
(*                                                                         *)
(* Beside it, under specifications of their own: the authenticate          *)
(* middleware (MiddlewareSpec), which turns the token of an HTTP request   *)
(* into req.accountability, UsersService (UsersSpec) with the checks it    *)
(* runs before it creates, updates and deletes users, and the one-time     *)
(* passwords of PhoneAuthDriver (PhoneSpec).                               *)
(***************************************************************************)
EXTENDS Integers, Sequences, FiniteSets, TLC

\* ---------------------------------------------------------------- bounds
NumSockets == 2        \* upgrade requests that reach the HTTP server
MaxInputs == 3         \* upgrade requests and inbound frames, taken together
maxConnections == 1    \* <PREFIX>_CONN_LIMIT
AuthTimeout == 1       \* <PREFIX>_AUTH_TIMEOUT, in ticks
AccessTokenTTL == 1    \* lifetime of a token issued by a login, in ticks
TokenExp == 2          \* the lifetime left of the access tokens tried, in ticks
RatePoints == 1        \* RATE_LIMITER_POINTS: consumes permitted per key and window
RateDuration == 1      \* RATE_LIMITER_DURATION: the length of a key's window, in ticks
MaxUsers == 2          \* the primary keys UsersService calls are made with
MaxCalls == 2          \* UsersService calls, taken together
MaxOtps == 2           \* calls of requestOneTimePassword
MaxLogins == 2         \* logins with a phone number and a password
MaxTime == 2           \* how far the clock of the phone logins runs, in ticks
OtpTTL == 1            \* SMS_OTP_TTL, in ticks

\* ------------------------------------------------------ program constants
TOKEN_CHECK_INTERVAL == 1

NULL == "null"
\* null where the code holds a number (expires_at, a timer handle)
NONE == 0 - 1
\* a nullable object: <<>> is null
None == <<>>
Some(x) == <<x>>
Sockets == 1..NumSockets
Modes == {"public", "handshake", "strict"}

\* ----------------------------------------------------- identity descriptors
Anonymous == [user |-> NULL, role |-> NULL, admin |-> FALSE, app |-> FALSE]

UserAccountability == [user |-> "user", role |-> "role", admin |-> FALSE, app |-> TRUE]

\* ------------------------------------------------------------ input domains
UIDs == {NULL, "uid"}

\* expiry claims carried by access tokens: NULL is a static token
ExpChoices == {NONE, TokenExp}

\* access_token query parameters of a strict-mode upgrade
Tokens ==
    {[kind |-> "missing", exp |-> NONE], [kind |-> "invalid", exp |-> NONE],
     [kind |-> "share", exp |-> TokenExp]}
    \cup {[kind |-> "user", exp |-> e] : e \in ExpChoices}

\* inbound frames: unparseable text, a non-auth message, a message of type
\* auth that fails the auth-message schema, wrong credentials, a login with
\* email and password, an access token
Frames ==
    {[kind |-> "garbage", uid |-> NULL, exp |-> NONE]}
    \cup {[kind |-> "other", uid |-> u, exp |-> NONE] : u \in UIDs}
    \cup {[kind |-> k, uid |-> "uid", exp |-> NONE] :
            k \in {"auth_noschema", "auth_bad", "auth_login"}}
    \cup {[kind |-> "auth_token", uid |-> NULL, exp |-> e] : e \in ExpChoices}

VARIABLES
    mode,            \* authentication.mode
    rateLimiter,     \* TRUE when this.rateLimiter is not null
    nextSweep,       \* the delay left until the setInterval of checkClientTokens is due
    authInterval,    \* TRUE while that interval is scheduled
    terminated,      \* terminate() has run
    clients,         \* this.clients
    phase,           \* where each upgrade request stands
    http,            \* the status line written to the raw socket, if any
    ws,              \* the WebSocket's state: none, open, closing, terminated, closed
    pending,         \* the token or frame an upgrade is still resolving
    accountability,  \* client.accountability
    expires_at,      \* client.expires_at, as the time left until it
    auth_timer,      \* client.auth_timer: NULL or the id of a timer
    timers,          \* the expiry timers the event loop still holds, per connection
    waits,           \* delays left of pending waitForMessageType/waitForAnyMessage
    tasks,           \* message handlers suspended at an await, per connection
    consumed,        \* the rate limiter's key of each connection: points consumed, window left
    listeners,       \* the listeners the accept path has put on each transport, in order
    inputs,          \* upgrade requests and inbound frames so far
    out,             \* what the last step sent to, or raised for, a connection
    req,             \* the HTTP request the authenticate handler runs on
    handler,         \* where the authenticate handler stands
    req_accountability,  \* req.accountability
    next_calls,      \* how often the handler has called next()
    thrown,          \* the error the handler has rejected with, if any
    directus_users,          \* the rows of directus_users: id, role, email
    directus_notifications,  \* the rows of directus_notifications: id, sender
    directus_versions,       \* the rows of directus_versions: id, user_updated
    next_id,         \* the primary key the next created user gets
    calls,           \* the UsersService calls in flight, each at one of its awaits
    concurrency,     \* how many calls the callers let run at a time
    started,         \* the calls made so far
    returned,        \* how the call that settled last has settled
    sms_one_time_password,         \* the user's stored hash, null when there is none
    sms_one_time_password_expire,  \* the time it expires at, NONE when there is none
    now,             \* Date.now() of the phone logins
    logins,          \* the phone logins in flight, each with the user row it has read
    successes,       \* how many logins each password issued has let through
    sms              \* the passwords sent by SMS, in order

\* the state of the authenticate middleware
middleware == <<req, handler, req_accountability, next_calls, thrown>>

\* the state of UsersService and of its tables
usersvc ==
    <<directus_users, directus_notifications, directus_versions, next_id, calls,
      concurrency, started, returned>>

\* the state of the phone logins
phoneauth ==
    <<sms_one_time_password, sms_one_time_password_expire, now, logins, successes, sms>>

\* what the socket controller never touches
services == <<middleware, usersvc, phoneauth>>

\* the state of the socket controller
gateway ==
    <<mode, rateLimiter, nextSweep, authInterval, terminated, clients, phase,
      http, ws, pending, accountability, expires_at, auth_timer, timers,
      waits, tasks, consumed, listeners, inputs, out>>

vars == <<gateway, services>>

\* ------------------------------------------------- frames sent, events raised
\* a step that sends and raises nothing
Quiet == [sock |-> 0, ev |-> <<>>]

\* a step that sends or raises ev, in this order, on connection s
Emit(s, ev) == IF ev = <<>> THEN Quiet ELSE [sock |-> s, ev |-> ev]

Sent(type, code, uid, rt) ==
    [k |-> "send", type |-> type, code |-> code, uid |-> uid, rt |-> rt]

Raised(name) == [k |-> "event", type |-> name, code |-> NULL, uid |-> NULL, rt |-> NULL]

Created == [k |-> "created", type |-> NULL, code |-> NULL, uid |-> NULL, rt |-> NULL]

HandedOff(uid) == [k |-> "parsed-message", type |-> "other", code |-> NULL, uid |-> uid, rt |-> NULL]

\* authenticationSuccess(uid, refresh_token)
authenticationSuccess(uid, rt) == Sent("auth", "ok", uid, rt)

HandshakeFailed == Sent("auth", "AUTH_FAILED:handshake", NULL, NULL)

AuthFailed(uid) == Sent("auth", "AUTH_FAILED", uid, NULL)

AuthTimedOut == Sent("auth", "AUTH_TIMEOUT", NULL, NULL)

TokenExpired == Sent("auth", "TOKEN_EXPIRED", NULL, NULL)

RequestsExceeded == Sent("server", "REQUESTS_EXCEEDED", NULL, NULL)

InvalidPayload == Sent("server", "INVALID_PAYLOAD", NULL, NULL)

\* WebSocket.send: a frame goes out only on an open transport
Send(s, lg, frame) == IF ws[s] = "open" THEN Append(lg, frame) ELSE lg

\* ------------------------------------------------- accountability resolver
\* getAccountabilityForToken + getExpiresAtForToken on a query token
ResolveToken(tok) ==
    CASE tok.kind = "user" /\ (tok.exp = NONE \/ tok.exp > 0) ->
            [ok |-> TRUE, accountability |-> Some(UserAccountability), expires_at |-> tok.exp]
      [] tok.kind = "share" /\ tok.exp > 0 ->
            [ok |-> TRUE, accountability |-> Some(Anonymous), expires_at |-> tok.exp]
      [] OTHER -> [ok |-> FALSE, accountability |-> None, expires_at |-> NONE]

\* authenticateConnection on an auth message
authenticateConnection(f) ==
    CASE f.kind = "auth_login" ->
            [ok |-> TRUE, accountability |-> Some(UserAccountability),
             expires_at |-> AccessTokenTTL, refresh_token |-> "refresh"]
      [] f.kind = "auth_token" /\ (f.exp = NONE \/ f.exp > 0) ->
            [ok |-> TRUE, accountability |-> Some(UserAccountability),
             expires_at |-> f.exp, refresh_token |-> NULL]
      [] OTHER ->
            [ok |-> FALSE, accountability |-> None, expires_at |-> NONE,
             refresh_token |-> NULL]

\* getMessageType
IsAuthType(f) == f.kind \in {"auth_noschema", "auth_bad", "auth_login", "auth_token"}

\* WebSocketAuthMessage.parse succeeds
IsAuthMessage(f) == f.kind \in {"auth_bad", "auth_login", "auth_token"}

\* --------------------------------------------------- rateLimiter.consume
\* a key the limiter does not hold: never consumed, or its window has run out
NoKey == [points |-> 0, ttl |-> NONE]

\* the limiter with one point too many
Permitted_OneMore(k) == k.points <= RatePoints

\* consume resolves while the points of the window are not used up
Permitted(k) == k.points < RatePoints

\* the key after consume(client.uid): the first consume opens the window
Consume(k) ==
    IF k.ttl = NONE
    THEN [points |-> 1, ttl |-> RateDuration]
    ELSE [k EXCEPT !.points = IF Permitted(k) THEN @ + 1 ELSE @]

\* the key one tick later: it is dropped when its window ends
AgedKey(k) ==
    IF k.ttl = NONE THEN k ELSE IF k.ttl <= 1 THEN NoKey ELSE [k EXCEPT !.ttl = @ - 1]

\* ------------------------------------------------------ setTokenExpireTimer
\* setTimeout's handle: an id no pending timer of the connection has
NewHandle(p) == CHOOSE n \in 1..(Cardinality(p) + 1) : \A x \in p : x.id # n

\* clearTimeout(handle): a handle of a timer that has fired clears nothing
clearTimeout(p, h) == {x \in p : x.id # h}

\* setTokenExpireTimer without its clearTimeout
setTokenExpireTimer_NoClear(h, p, exp) ==
    IF exp = NONE \/ exp > TOKEN_CHECK_INTERVAL
    THEN [h |-> NONE, p |-> p]
    ELSE [h |-> NewHandle(p), p |-> p \cup {[id |-> NewHandle(p), at |-> exp]}]

\* the connection's handle h and its pending timers p after
\* setTokenExpireTimer with exp left until the expiry
setTokenExpireTimer(h, p, exp) ==
    LET cleared == IF h # NONE THEN clearTimeout(p, h) ELSE p
    IN  IF exp = NONE \/ exp > TOKEN_CHECK_INTERVAL
        THEN [h |-> NONE, p |-> cleared]
        ELSE [h |-> NewHandle(cleared),
              p |-> cleared \cup {[id |-> NewHandle(cleared), at |-> exp]}]

\* ------------------------------------------------------ catchInvalidMessages
\* the upgrade callback that installs nothing before it goes on
catchInvalidMessages_Skipped(ls) == ls

\* ws._socket.prependListener('data', ...) and ws.on('error', ...)
catchInvalidMessages(ls) == ls \o <<"data:catchInvalidMessages", "error:catchInvalidMessages">>

\* waitForAnyMessage listens for the first frame
waitForAnyMessage(ls) == Append(ls, "message:waitForAnyMessage")

\* ------------------------------------------------------------- createClient
\* lg is what the step has sent on the connection before the record is
\* created, ls the listeners its transport has by then
createClient(s, acc, exp, lg, ls) ==
    LET r == setTokenExpireTimer(NONE, timers[s], exp)
    IN  /\ listeners' = [listeners EXCEPT ![s] =
              ls \o <<"message:createClient", "error:createClient", "close:createClient">>]
        /\ accountability' = [accountability EXCEPT ![s] = acc]
        /\ expires_at' = [expires_at EXCEPT ![s] = exp]
        /\ auth_timer' = [auth_timer EXCEPT ![s] = r.h]
        /\ timers' = [timers EXCEPT ![s] = r.p]
        /\ clients' = clients \cup {s}
        /\ phase' = [phase EXCEPT ![s] = "connected"]
        /\ out' = Emit(s, Append(lg, Created))

\* ------------------------------------------------------------ the tables
\* a call that settled without an error
OK == "ok"

\* the users the installation starts with: administrators
InitialUsers ==
    {[id |-> 1, role |-> "admin", email |-> "a@x.io"],
     [id |-> 2, role |-> "admin", email |-> "b@x.io"]}

\* UsersService is not called
UsersIdle ==
    /\ directus_users = InitialUsers
    /\ directus_notifications = {[id |-> 1, sender |-> 1]}
    /\ directus_versions = {[id |-> 1, user_updated |-> 2]}
    /\ next_id = 3
    /\ calls = <<>>
    /\ concurrency = 1
    /\ started = 0
    /\ returned = [op |-> NULL, err |-> OK]

\* no password has been requested, nobody logs in
PhoneIdle ==
    /\ sms_one_time_password = None
    /\ sms_one_time_password_expire = NONE
    /\ now = 0
    /\ logins = <<>>
    /\ successes = <<>>
    /\ sms = <<>>

\* no request is being handled
MiddlewareIdle ==
    /\ req = None
    /\ handler = "idle"
    /\ req_accountability = None
    /\ next_calls = 0
    /\ thrown = NULL

Init ==
    /\ MiddlewareIdle
    /\ UsersIdle
    /\ PhoneIdle
    /\ mode \in Modes
    /\ rateLimiter \in BOOLEAN
    /\ nextSweep = TOKEN_CHECK_INTERVAL
    /\ authInterval = TRUE
    /\ terminated = FALSE
    /\ clients = {}
    /\ phase = [s \in Sockets |-> "new"]
    /\ http = [s \in Sockets |-> NULL]
    /\ ws = [s \in Sockets |-> "none"]
    /\ pending = [s \in Sockets |-> None]
    /\ accountability = [s \in Sockets |-> None]
    /\ expires_at = [s \in Sockets |-> NONE]
    /\ auth_timer = [s \in Sockets |-> NONE]
    /\ timers = [s \in Sockets |-> {}]
    /\ waits = [s \in Sockets |-> {}]
    /\ tasks = [s \in Sockets |-> <<>>]
    /\ consumed = [s \in Sockets |-> NoKey]
    /\ listeners = [s \in Sockets |-> <<>>]
    /\ inputs = 0
    /\ out = Quiet

\* ------------------------------------------------------------ handleUpgrade
\* upgrade requests are numbered in their order of arrival
Arrives(s) ==
    /\ phase[s] = "new"
    /\ \A r \in Sockets : r < s => phase[r] # "new"
    /\ inputs < MaxInputs
    /\ inputs' = inputs + 1

\* the path check answering a foreign path: 404 written, socket destroyed
UpgradeOtherPath_Destroys(s) ==
    /\ Arrives(s)
    /\ phase' = [phase EXCEPT ![s] = "ignored"]
    /\ http' = [http EXCEPT ![s] = "404"]
    /\ out' = Quiet
    /\ UNCHANGED <<services, listeners, mode, rateLimiter, nextSweep, authInterval, terminated, clients,
                   ws, pending, accountability, expires_at, auth_timer, timers, waits, tasks, consumed>>

\* pathname !== this.endpoint: left to another handler
UpgradeOtherPath(s) ==
    /\ Arrives(s)
    /\ phase' = [phase EXCEPT ![s] = "ignored"]
    /\ out' = Quiet
    /\ UNCHANGED <<services, listeners, mode, rateLimiter, nextSweep, authInterval, terminated, clients,
                   http, ws, pending, accountability, expires_at, auth_timer, timers, waits, tasks, consumed>>

\* the limit check with > for >=
LimitReached_Above == Cardinality(clients) > maxConnections

\* this.clients.size >= this.maxConnections
LimitReached == Cardinality(clients) >= maxConnections

UpgradeDenied(s) ==
    /\ Arrives(s)
    /\ LimitReached
    /\ http' = [http EXCEPT ![s] = "403"]
    /\ phase' = [phase EXCEPT ![s] = "destroyed"]
    /\ out' = Quiet
    /\ UNCHANGED <<services, listeners, mode, rateLimiter, nextSweep, authInterval, terminated, clients,
                   ws, pending, accountability, expires_at, auth_timer, timers, waits, tasks, consumed>>

UpgradeStrict(s, tok) ==
    /\ Arrives(s)
    /\ ~LimitReached
    /\ mode = "strict"
    /\ phase' = [phase EXCEPT ![s] = "resolving"]
    /\ pending' = [pending EXCEPT ![s] = Some(tok)]
    /\ out' = Quiet
    /\ UNCHANGED <<services, listeners, mode, rateLimiter, nextSweep, authInterval, terminated, clients,
                   http, ws, accountability, expires_at, auth_timer, timers, waits, tasks, consumed>>

UpgradeHandshake(s) ==
    /\ Arrives(s)
    /\ ~LimitReached
    /\ mode = "handshake"
    /\ http' = [http EXCEPT ![s] = "101"]
    /\ ws' = [ws EXCEPT ![s] = "open"]
    /\ phase' = [phase EXCEPT ![s] = "handshake"]
    /\ listeners' = [listeners EXCEPT ![s] = waitForAnyMessage(catchInvalidMessages(@))]
    /\ waits' = [waits EXCEPT ![s] = {AuthTimeout}]
    /\ out' = Quiet
    /\ UNCHANGED <<services, mode, rateLimiter, nextSweep, authInterval, terminated, clients,
                   pending, accountability, expires_at, auth_timer, timers, tasks, consumed>>

\* a public upgrade that attaches the anonymous accountability
PublicState_Anonymous == [accountability |-> Some(Anonymous), expires_at |-> NONE]

\* the state a public upgrade emits 'connection' with
PublicState == [accountability |-> None, expires_at |-> NONE]

UpgradePublic(s) ==
    /\ Arrives(s)
    /\ ~LimitReached
    /\ mode = "public"
    /\ http' = [http EXCEPT ![s] = "101"]
    /\ ws' = [ws EXCEPT ![s] = "open"]
    /\ createClient(s, PublicState.accountability, PublicState.expires_at, <<>>,
                    catchInvalidMessages(listeners[s]))
    /\ UNCHANGED <<services, mode, rateLimiter, nextSweep, authInterval, terminated,
                   pending, waits, tasks, consumed>>

handleUpgrade(s) ==
    \/ UpgradeOtherPath(s)
    \/ UpgradeDenied(s)
    \/ \E tok \in Tokens : UpgradeStrict(s, tok)
    \/ UpgradeHandshake(s)
    \/ UpgradePublic(s)

\* ------------------------------------------------------ handleStrictUpgrade
\* the check with !accountability.user left out
StrictDenied_NoUserCheck(r) == ~r.ok

\* !accountability || !accountability.user
StrictDenied(r) == ~r.ok \/ r.accountability[1].user = NULL

\* the strict upgrade that drops the token's expiry
handleStrictUpgrade_NoExpiry(s) ==
    LET r == ResolveToken(pending[s][1])
    IN  /\ phase[s] = "resolving"
        /\ pending' = [pending EXCEPT ![s] = None]
        /\ IF StrictDenied(r)
           THEN /\ http' = [http EXCEPT ![s] = "401"]
                /\ phase' = [phase EXCEPT ![s] = "destroyed"]
                /\ out' = Quiet
                /\ UNCHANGED <<ws, clients, accountability, expires_at, auth_timer,
                               timers, listeners>>
           ELSE /\ http' = [http EXCEPT ![s] = "101"]
                /\ ws' = [ws EXCEPT ![s] = "open"]
                /\ createClient(s, r.accountability, NONE, <<>>,
                                catchInvalidMessages(listeners[s]))
        /\ UNCHANGED <<services, mode, rateLimiter, nextSweep, authInterval, terminated,
                       waits, tasks, consumed, inputs>>

\* getAccountabilityForToken has settled
handleStrictUpgrade(s) ==
    LET r == ResolveToken(pending[s][1])
    IN  /\ phase[s] = "resolving"
        /\ pending' = [pending EXCEPT ![s] = None]
        /\ IF StrictDenied(r)
           THEN /\ http' = [http EXCEPT ![s] = "401"]
                /\ phase' = [phase EXCEPT ![s] = "destroyed"]
                /\ out' = Quiet
                /\ UNCHANGED <<ws, clients, accountability, expires_at, auth_timer,
                               timers, listeners>>
           ELSE /\ http' = [http EXCEPT ![s] = "101"]
                /\ ws' = [ws EXCEPT ![s] = "open"]
                /\ createClient(s, r.accountability, r.expires_at, <<>>,
                                catchInvalidMessages(listeners[s]))
        /\ UNCHANGED <<services, mode, rateLimiter, nextSweep, authInterval, terminated,
                       waits, tasks, consumed, inputs>>

\* --------------------------------------------------- handleHandshakeUpgrade
\* WebSocket.close: starts the closing handshake of an open transport
Closing(s) == IF ws[s] = "open" THEN "closing" ELSE ws[s]

\* the catch block without its ws.close()
HandshakeRejected_NoClose(s) ==
    /\ out' = Emit(s, Send(s, <<>>, HandshakeFailed))
    /\ phase' = [phase EXCEPT ![s] = "failed"]
    /\ pending' = [pending EXCEPT ![s] = None]
    /\ UNCHANGED <<ws, clients, accountability, expires_at, auth_timer, timers, listeners>>

\* the catch block: error frame, then ws.close()
HandshakeRejected(s) ==
    /\ out' = Emit(s, Send(s, <<>>, HandshakeFailed))
    /\ ws' = [ws EXCEPT ![s] = Closing(s)]
    /\ phase' = [phase EXCEPT ![s] = "failed"]
    /\ pending' = [pending EXCEPT ![s] = None]
    /\ UNCHANGED <<clients, accountability, expires_at, auth_timer, timers, listeners>>

\* waitForAnyMessage resolves with the first frame
HandshakeMessage(s, f) ==
    /\ phase[s] = "handshake"
    /\ ws[s] = "open"
    /\ inputs < MaxInputs
    /\ inputs' = inputs + 1
    /\ waits' = [waits EXCEPT ![s] = {}]
    /\ IF IsAuthMessage(f)
       THEN /\ phase' = [phase EXCEPT ![s] = "authenticating"]
            /\ pending' = [pending EXCEPT ![s] = Some(f)]
            /\ out' = Quiet
            /\ UNCHANGED <<ws, clients, accountability, expires_at, auth_timer, timers>>
       ELSE HandshakeRejected(s)
    /\ UNCHANGED <<services, listeners, mode, rateLimiter, nextSweep, authInterval, terminated,
                   http, tasks, consumed>>

\* a frame arrives while authenticateConnection is pending: the transport has
\* no 'message' listener until createClient adds its own
HandshakeUnheard(s, f) ==
    /\ phase[s] = "authenticating"
    /\ ws[s] = "open"
    /\ inputs < MaxInputs
    /\ inputs' = inputs + 1
    /\ out' = Quiet
    /\ UNCHANGED <<services, listeners, mode, rateLimiter, nextSweep, authInterval, terminated, clients,
                   phase, http, ws, pending, accountability, expires_at, auth_timer,
                   timers, waits, tasks, consumed>>

\* waitForAnyMessage rejects when its timer fires
HandshakeTimeout(s) ==
    /\ phase[s] = "handshake"
    /\ \E d \in waits[s] : d <= 0
    /\ waits' = [waits EXCEPT ![s] = {}]
    /\ HandshakeRejected(s)
    /\ UNCHANGED <<services, listeners, mode, rateLimiter, nextSweep, authInterval, terminated,
                   http, tasks, consumed, inputs>>

\* the 'connection' event emitted without the success frame before it
HandshakeAccepted_NoFrame(s, f, r) ==
    /\ createClient(s, r.accountability, r.expires_at, <<>>, listeners[s])
    /\ pending' = [pending EXCEPT ![s] = None]
    /\ UNCHANGED ws

\* ws.send(authenticationSuccess(...)), then the 'connection' event
HandshakeAccepted(s, f, r) ==
    /\ createClient(s, r.accountability, r.expires_at,
                    Send(s, <<>>, authenticationSuccess(f.uid, r.refresh_token)),
                    listeners[s])
    /\ pending' = [pending EXCEPT ![s] = None]
    /\ UNCHANGED ws

\* authenticateConnection has settled
HandshakeAuthenticated(s) ==
    LET f == pending[s][1]
        r == authenticateConnection(f)
    IN  /\ phase[s] = "authenticating"
        /\ IF r.ok
           THEN HandshakeAccepted(s, f, r)
           ELSE HandshakeRejected(s)
        /\ UNCHANGED <<services, mode, rateLimiter, nextSweep, authInterval, terminated,
                       http, waits, tasks, consumed, inputs>>

\* ------------------------------------------- createClient: message handler
\* parseMessage without its INVALID_PAYLOAD: what cannot be parsed is handed off
Parsed_NoReject(s, f, lg) ==
    CASE IsAuthType(f) -> lg
      [] OTHER -> Append(lg, HandedOff(f.uid))

\* the log after the handler's synchronous part: parseMessage, then either
\* the auth branch or the hand-off
Parsed(s, f, lg) ==
    CASE f.kind = "garbage" -> Send(s, lg, InvalidPayload)
      [] IsAuthType(f) -> lg
      [] OTHER -> Append(lg, HandedOff(f.uid))

Task(f, pc) == [f |-> f, pc |-> pc]

Without(seq, i) == SubSeq(seq, 1, i - 1) \o SubSeq(seq, i + 1, Len(seq))

\* waitForMessageType(client, 'auth'): a parseable message of type auth ends the wait
WaitsAfter(s, f) == IF IsAuthType(f) THEN {} ELSE waits[s]

\* the handler consuming from one key for all connections
Message_SharedKey(s, f) ==
    /\ phase[s] = "connected"
    /\ ws[s] \in {"open", "closing"}
    /\ inputs < MaxInputs
    /\ inputs' = inputs + 1
    /\ waits' = [waits EXCEPT ![s] = WaitsAfter(s, f)]
    /\ IF rateLimiter
       THEN /\ consumed' = [b \in Sockets |-> Consume(consumed[b])]
            /\ tasks' = [tasks EXCEPT ![s] =
                  Append(@, Task(f, IF Permitted(consumed[s]) THEN "consumed" ELSE "limited"))]
            /\ out' = Quiet
       ELSE /\ out' = Emit(s, Parsed(s, f, <<>>))
            /\ tasks' = [tasks EXCEPT ![s] =
                  IF IsAuthMessage(f) THEN Append(@, Task(f, "auth")) ELSE @]
            /\ UNCHANGED consumed
    /\ UNCHANGED <<services, listeners, mode, rateLimiter, nextSweep, authInterval, terminated, clients,
                   phase, http, ws, pending, accountability, expires_at, auth_timer,
                   timers>>

\* a frame arrives on a connection that has a record
Message(s, f) ==
    /\ phase[s] = "connected"
    /\ ws[s] \in {"open", "closing"}
    /\ inputs < MaxInputs
    /\ inputs' = inputs + 1
    /\ waits' = [waits EXCEPT ![s] = WaitsAfter(s, f)]
    /\ IF rateLimiter
       THEN /\ consumed' = [consumed EXCEPT ![s] = Consume(@)]
            /\ tasks' = [tasks EXCEPT ![s] =
                  Append(@, Task(f, IF Permitted(consumed[s]) THEN "consumed" ELSE "limited"))]
            /\ out' = Quiet
       ELSE /\ out' = Emit(s, Parsed(s, f, <<>>))
            /\ tasks' = [tasks EXCEPT ![s] =
                  IF IsAuthMessage(f) THEN Append(@, Task(f, "auth")) ELSE @]
            /\ UNCHANGED consumed
    /\ UNCHANGED <<services, listeners, mode, rateLimiter, nextSweep, authInterval, terminated, clients,
                   phase, http, ws, pending, accountability, expires_at, auth_timer,
                   timers>>

\* rateLimiter.consume resolved: the handler goes on
ConsumeResolved(s, i) ==
    /\ i \in DOMAIN tasks[s]
    /\ tasks[s][i].pc = "consumed"
    /\ out' = Emit(s, Parsed(s, tasks[s][i].f, <<>>))
    /\ tasks' = [tasks EXCEPT ![s] =
          IF IsAuthMessage(@[i].f) THEN [@ EXCEPT ![i].pc = "auth"] ELSE Without(@, i)]
    /\ UNCHANGED <<services, listeners, mode, rateLimiter, nextSweep, authInterval, terminated, clients,
                   phase, http, ws, pending, accountability, expires_at, auth_timer,
                   timers, waits, consumed, inputs>>

\* the rejection taken as fatal: the connection is closed after the error frame
ConsumeRejected_Closes(s, i) ==
    /\ i \in DOMAIN tasks[s]
    /\ tasks[s][i].pc = "limited"
    /\ out' = Emit(s, Send(s, <<>>, RequestsExceeded))
    /\ tasks' = [tasks EXCEPT ![s] = Without(@, i)]
    /\ ws' = [ws EXCEPT ![s] = Closing(s)]
    /\ UNCHANGED <<services, listeners, mode, rateLimiter, nextSweep, authInterval, terminated, clients,
                   phase, http, pending, accountability, expires_at, auth_timer,
                   timers, waits, consumed, inputs>>

\* rateLimiter.consume rejected: REQUESTS_EXCEEDED, the frame is dropped
ConsumeRejected(s, i) ==
    /\ i \in DOMAIN tasks[s]
    /\ tasks[s][i].pc = "limited"
    /\ out' = Emit(s, Send(s, <<>>, RequestsExceeded))
    /\ tasks' = [tasks EXCEPT ![s] = Without(@, i)]
    /\ UNCHANGED <<services, listeners, mode, rateLimiter, nextSweep, authInterval, terminated, clients,
                   phase, http, ws, pending, accountability, expires_at, auth_timer,
                   timers, waits, consumed, inputs>>

\* -------------------------------------------------------- handleAuthRequest
\* the success path without its setTokenExpireTimer
AuthSucceeded_NoTimer(s, i) ==
    LET f == tasks[s][i].f
        r == authenticateConnection(f)
    IN  /\ r.ok
        /\ accountability' = [accountability EXCEPT ![s] = r.accountability]
        /\ expires_at' = [expires_at EXCEPT ![s] = r.expires_at]
        /\ out' = Emit(s, Send(s, <<Raised("websocket.auth.success")>>,
                                authenticationSuccess(f.uid, r.refresh_token)))
        /\ UNCHANGED <<ws, auth_timer, timers>>

\* authenticateConnection resolved
AuthSucceeded(s, i) ==
    LET f == tasks[s][i].f
        r == authenticateConnection(f)
        t == setTokenExpireTimer(auth_timer[s], timers[s], r.expires_at)
    IN  /\ r.ok
        /\ accountability' = [accountability EXCEPT ![s] = r.accountability]
        /\ expires_at' = [expires_at EXCEPT ![s] = r.expires_at]
        /\ auth_timer' = [auth_timer EXCEPT ![s] = t.h]
        /\ timers' = [timers EXCEPT ![s] = t.p]
        /\ out' = Emit(s, Send(s, <<Raised("websocket.auth.success")>>,
                                authenticationSuccess(f.uid, r.refresh_token)))
        /\ UNCHANGED ws

\* authenticateConnection rejected
AuthRejected(s, i) ==
    LET f == tasks[s][i].f
        r == authenticateConnection(f)
    IN  /\ ~r.ok
        /\ accountability' = [accountability EXCEPT ![s] = None]
        /\ expires_at' = [expires_at EXCEPT ![s] = NONE]
        /\ out' = Emit(s, Send(s, <<Raised("websocket.auth.failure")>>, AuthFailed(f.uid)))
        /\ ws' = [ws EXCEPT ![s] = IF mode # "public" THEN Closing(s) ELSE @]
        /\ UNCHANGED <<auth_timer, timers>>

handleAuthRequest(s, i) ==
    /\ i \in DOMAIN tasks[s]
    /\ tasks[s][i].pc = "auth"
    /\ AuthSucceeded(s, i) \/ AuthRejected(s, i)
    /\ tasks' = [tasks EXCEPT ![s] = Without(@, i)]
    /\ UNCHANGED <<services, listeners, mode, rateLimiter, nextSweep, authInterval, terminated, clients,
                   phase, http, pending, waits, consumed, inputs>>

\* ------------------------------------------------------------------ timers
\* the callback of the timer armed by setTokenExpireTimer
TokenExpires(s, t) ==
    /\ t \in timers[s]
    /\ t.at <= 0
    /\ timers' = [timers EXCEPT ![s] = @ \ {t}]
    /\ accountability' = [accountability EXCEPT ![s] = None]
    /\ expires_at' = [expires_at EXCEPT ![s] = NONE]
    /\ out' = Emit(s, Send(s, <<>>, TokenExpired))
    /\ waits' = [waits EXCEPT ![s] = @ \cup {AuthTimeout}]
    /\ UNCHANGED <<services, listeners, mode, rateLimiter, nextSweep, authInterval, terminated, clients,
                   phase, http, ws, pending, auth_timer, tasks, consumed, inputs>>

\* the catch of waitForMessageType without its client.close()
ReauthTimeout_NoClose(s, d) ==
    /\ phase[s] = "connected"
    /\ d \in waits[s]
    /\ d <= 0
    /\ waits' = [waits EXCEPT ![s] = @ \ {d}]
    /\ out' = Emit(s, Send(s, <<>>, AuthTimedOut))
    /\ UNCHANGED <<services, listeners, mode, rateLimiter, nextSweep, authInterval, terminated, clients,
                   phase, http, ws, pending, accountability, expires_at, auth_timer, timers, tasks, consumed, inputs>>

\* waitForMessageType rejects when its timer fires
ReauthTimeout(s, d) ==
    /\ phase[s] = "connected"
    /\ d \in waits[s]
    /\ d <= 0
    /\ waits' = [waits EXCEPT ![s] = @ \ {d}]
    /\ out' = Emit(s, Send(s, <<>>, AuthTimedOut))
    /\ ws' = [ws EXCEPT ![s] = IF mode # "public" THEN Closing(s) ELSE @]
    /\ UNCHANGED <<services, listeners, mode, rateLimiter, nextSweep, authInterval, terminated, clients,
                   phase, http, pending, accountability, expires_at, auth_timer, timers, tasks, consumed, inputs>>

\* the sweep with its timer test inverted: it skips the connections without a timer
Swept_Armed == {s \in clients : expires_at[s] # NONE /\ auth_timer[s] # NONE}

\* the connections the sweep re-arms
Swept == {s \in clients : expires_at[s] # NONE /\ auth_timer[s] = NONE}

\* the setInterval callback of checkClientTokens
checkClientTokens ==
    /\ authInterval
    /\ nextSweep <= 0
    /\ nextSweep' = TOKEN_CHECK_INTERVAL
    /\ auth_timer' = [s \in Sockets |->
          IF s \in Swept
          THEN setTokenExpireTimer(auth_timer[s], timers[s], expires_at[s]).h
          ELSE auth_timer[s]]
    /\ timers' = [s \in Sockets |->
          IF s \in Swept
          THEN setTokenExpireTimer(auth_timer[s], timers[s], expires_at[s]).p
          ELSE timers[s]]
    /\ out' = Quiet
    /\ UNCHANGED <<services, listeners, mode, rateLimiter, authInterval, terminated, clients, phase,
                   http, ws, pending, accountability, expires_at, waits, tasks,
                   consumed, inputs>>

\* ------------------------------------------- createClient: error and close
\* what both handlers do to the record
Removed(s) ==
    IF phase[s] = "connected"
    THEN /\ timers' = [timers EXCEPT ![s] = clearTimeout(@, auth_timer[s])]
         /\ auth_timer' = [auth_timer EXCEPT ![s] = NONE]
         /\ clients' = clients \ {s}
    ELSE UNCHANGED <<timers, auth_timer, clients>>

\* the transport's 'error' event; the transport then closes
SocketError(s) ==
    /\ ws[s] = "open"
    /\ ws' = [ws EXCEPT ![s] = "closing"]
    /\ Removed(s)
    /\ out' = Quiet
    /\ UNCHANGED <<services, listeners, mode, rateLimiter, nextSweep, authInterval, terminated, phase,
                   http, pending, accountability, expires_at, waits, tasks,
                   consumed, inputs>>

\* the transport's 'close' event: the peer left, or close()/terminate() completed
SocketClose(s) ==
    /\ ws[s] \in {"open", "closing", "terminated"}
    /\ ws' = [ws EXCEPT ![s] = "closed"]
    /\ Removed(s)
    /\ out' = Quiet
    /\ UNCHANGED <<services, listeners, mode, rateLimiter, nextSweep, authInterval, terminated, phase,
                   http, pending, accountability, expires_at, waits, tasks,
                   consumed, inputs>>

\* --------------------------------------------------------------- terminate
\* this.server.clients: the transports the WebSocket server tracks
Tracked == {s \in Sockets : ws[s] \in {"open", "closing"}}

terminate ==
    /\ ~terminated
    /\ terminated' = TRUE
    /\ authInterval' = FALSE
    /\ timers' = [s \in Sockets |->
          IF s \in clients THEN clearTimeout(timers[s], auth_timer[s]) ELSE timers[s]]
    /\ ws' = [s \in Sockets |-> IF s \in Tracked THEN "terminated" ELSE ws[s]]
    /\ out' = Quiet
    /\ UNCHANGED <<services, listeners, mode, rateLimiter, nextSweep, clients, phase, http, pending,
                   accountability, expires_at, auth_timer, waits, tasks,
                   consumed, inputs>>

\* ------------------------------------------------------------------- clock
\* a timer that is due runs before the clock moves on
Due ==
    \/ authInterval /\ nextSweep <= 0
    \/ \E s \in Sockets : \E t \in timers[s] : t.at <= 0
    \/ \E s \in Sockets : \E d \in waits[s] : d <= 0

\* a time left, one tick later; an expiry that has passed stays passed
Aged(x) == IF x = NONE THEN NONE ELSE IF x > 0 THEN x - 1 ELSE 0

AgedInput(q) == [q EXCEPT !.exp = Aged(@)]

Tick ==
    /\ ~Due
    /\ nextSweep' = IF authInterval THEN nextSweep - 1 ELSE nextSweep
    /\ expires_at' = [s \in Sockets |-> Aged(expires_at[s])]
    /\ timers' = [s \in Sockets |-> {[x EXCEPT !.at = Aged(@)] : x \in timers[s]}]
    /\ waits' = [s \in Sockets |-> {Aged(d) : d \in waits[s]}]
    /\ pending' = [s \in Sockets |->
          IF pending[s] = None THEN None ELSE Some(AgedInput(pending[s][1]))]
    /\ tasks' = [s \in Sockets |->
          [i \in DOMAIN tasks[s] |-> [tasks[s][i] EXCEPT !.f = AgedInput(@)]]]
    /\ consumed' = [s \in Sockets |-> AgedKey(consumed[s])]
    /\ out' = Quiet
    /\ UNCHANGED <<services, listeners, mode, rateLimiter, authInterval, terminated, clients, phase, http,
                   ws, accountability, auth_timer, inputs>>

Next ==
    \/ \E s \in Sockets : handleUpgrade(s)
    \/ \E s \in Sockets : handleStrictUpgrade(s)
    \/ \E s \in Sockets : \E f \in Frames : HandshakeMessage(s, f)
    \/ \E s \in Sockets : \E f \in Frames : HandshakeUnheard(s, f)
    \/ \E s \in Sockets : HandshakeTimeout(s)
    \/ \E s \in Sockets : HandshakeAuthenticated(s)
    \/ \E s \in Sockets : \E f \in Frames : Message(s, f)
    \/ \E s \in Sockets : \E i \in 1..MaxInputs : ConsumeResolved(s, i)
    \/ \E s \in Sockets : \E i \in 1..MaxInputs : ConsumeRejected(s, i)
    \/ \E s \in Sockets : \E i \in 1..MaxInputs : handleAuthRequest(s, i)
    \/ \E s \in Sockets : \E t \in timers[s] : TokenExpires(s, t)
    \/ \E s \in Sockets : \E d \in waits[s] : ReauthTimeout(s, d)
    \/ checkClientTokens
    \/ \E s \in Sockets : SocketError(s)
    \/ \E s \in Sockets : SocketClose(s)
    \/ terminate
    \/ Tick

Spec == Init /\ [][Next]_vars

\* ============================================== the authenticate middleware
\* admin_access and app_access as a token payload or a database row holds
\* them: a JavaScript value, by its type and its text
RawFlags ==
    {[t |-> "boolean", v |-> "true"], [t |-> "boolean", v |-> "false"],
     [t |-> "number", v |-> "1"], [t |-> "number", v |-> "0"],
     [t |-> "string", v |-> "1"], [t |-> "string", v |-> "0"]}

\* x === true
StrictlyTrue(x) == x.t = "boolean" /\ x.v = "true"

\* ToNumber(x), for the values above
ToNumber(x) ==
    CASE x.t = "boolean" -> IF x.v = "true" THEN 1 ELSE 0
      [] x.v = "1" -> 1
      [] OTHER -> 0

\* x == 1: the abstract equality converts a boolean or a string to a number
LooselyOne(x) == ToNumber(x) = 1

\* the flag taken by its truthiness: every non-empty string is true
toBoolean_Truthy(x) ==
    CASE x.t = "boolean" -> x.v = "true"
      [] x.t = "number" -> x.v # "0"
      [] OTHER -> x.v # ""

\* the strict boolean of a stored flag: x === true || x == 1
toBoolean(x) == StrictlyTrue(x) \/ LooselyOne(x)

\* the requests: no token, a signed token (its signature valid or not) with
\* the flags of its payload, a static token (a user holding it or none) with
\* the flags of the user's role; each with the authenticate filter of an
\* extension replacing the accountability or not
Requests ==
    [token : {"none"}, valid : {TRUE}, found : {FALSE}, filtered : BOOLEAN,
     admin_access : {[t |-> "boolean", v |-> "false"]},
     app_access : {[t |-> "boolean", v |-> "false"]}]
    \cup [token : {"jwt"}, valid : BOOLEAN, found : {FALSE}, filtered : BOOLEAN,
          admin_access : RawFlags, app_access : RawFlags]
    \cup [token : {"static"}, valid : {TRUE}, found : BOOLEAN, filtered : BOOLEAN,
          admin_access : RawFlags, app_access : RawFlags]

\* the accountability a request starts with
defaultAccountability == Anonymous

\* what the filter of the test returns
customAccountability == [user |-> NULL, role |-> NULL, admin |-> TRUE, app |-> FALSE]

\* getAccountabilityForToken(req.token, defaultAccountability), when it resolves
getAccountabilityForToken(r) ==
    CASE r.token = "none" -> defaultAccountability
      [] r.token = "jwt" ->
            [user |-> "user", role |-> "role",
             admin |-> toBoolean(r.admin_access), app |-> toBoolean(r.app_access)]
      [] OTHER ->
            [user |-> "user", role |-> "role",
             admin |-> toBoolean(r.admin_access), app |-> toBoolean(r.app_access)]

\* the error getAccountabilityForToken rejects with, NULL when it resolves
TokenError(r) ==
    CASE r.token = "jwt" /\ ~r.valid -> "InvalidTokenError"
      [] r.token = "static" /\ ~r.found -> "InvalidCredentialsError"
      [] OTHER -> NULL

\* a request reaches the handler
Receive(r) ==
    /\ handler = "idle"
    /\ req = None
    /\ req' = Some(r)
    /\ handler' = "filter"
    /\ UNCHANGED <<gateway, phoneauth, usersvc, req_accountability, next_calls, thrown>>

\* emitFilter('authenticate', defaultAccountability) has resolved: an
\* accountability other than the default one is taken as it is
Filtered ==
    /\ handler = "filter"
    /\ IF req[1].filtered
       THEN /\ req_accountability' = Some(customAccountability)
            /\ next_calls' = next_calls + 1
            /\ handler' = "done"
       ELSE /\ handler' = "resolving"
            /\ UNCHANGED <<req_accountability, next_calls>>
    /\ UNCHANGED <<gateway, phoneauth, usersvc, req, thrown>>

\* the handler that passes the error of the lookup on to next()
Resolved_NextOnError ==
    /\ handler = "resolving"
    /\ IF TokenError(req[1]) = NULL
       THEN /\ req_accountability' = Some(getAccountabilityForToken(req[1]))
            /\ next_calls' = next_calls + 1
            /\ handler' = "done"
            /\ UNCHANGED thrown
       ELSE /\ thrown' = TokenError(req[1])
            /\ next_calls' = next_calls + 1
            /\ handler' = "failed"
            /\ UNCHANGED req_accountability
    /\ UNCHANGED <<gateway, phoneauth, usersvc, req>>

\* getAccountabilityForToken has settled: next() on success, the rejection
\* is the handler's own otherwise
Resolved ==
    /\ handler = "resolving"
    /\ IF TokenError(req[1]) = NULL
       THEN /\ req_accountability' = Some(getAccountabilityForToken(req[1]))
            /\ next_calls' = next_calls + 1
            /\ handler' = "done"
            /\ UNCHANGED thrown
       ELSE /\ thrown' = TokenError(req[1])
            /\ handler' = "failed"
            /\ UNCHANGED <<req_accountability, next_calls>>
    /\ UNCHANGED <<gateway, phoneauth, usersvc, req>>

\* the socket controller before any upgrade request
GatewayIdle ==
    /\ mode = "public"
    /\ rateLimiter = FALSE
    /\ nextSweep = TOKEN_CHECK_INTERVAL
    /\ authInterval = TRUE
    /\ terminated = FALSE
    /\ clients = {}
    /\ phase = [s \in Sockets |-> "new"]
    /\ http = [s \in Sockets |-> NULL]
    /\ ws = [s \in Sockets |-> "none"]
    /\ pending = [s \in Sockets |-> None]
    /\ accountability = [s \in Sockets |-> None]
    /\ expires_at = [s \in Sockets |-> NONE]
    /\ auth_timer = [s \in Sockets |-> NONE]
    /\ timers = [s \in Sockets |-> {}]
    /\ waits = [s \in Sockets |-> {}]
    /\ tasks = [s \in Sockets |-> <<>>]
    /\ consumed = [s \in Sockets |-> NoKey]
    /\ listeners = [s \in Sockets |-> <<>>]
    /\ inputs = 0
    /\ out = Quiet

MiddlewareInit == GatewayIdle /\ MiddlewareIdle /\ UsersIdle /\ PhoneIdle

MiddlewareNext ==
    \/ \E r \in Requests : Receive(r)
    \/ Filtered
    \/ Resolved

MiddlewareSpec == MiddlewareInit /\ [][MiddlewareNext]_vars

\* ============================================================= UsersService
\* directus_roles: the administrators' role and another
directus_roles ==
    {[id |-> "admin", admin_access |-> TRUE], [id |-> "editor", admin_access |-> FALSE]}

\* a field the payload of a call does not set
UNSET == "undefined"

\* the primary keys calls are made with
UserKeys == 1..MaxUsers

KeySets == SUBSET UserKeys \ {{}}

\* the email addresses calls are made with
Emails == {"A@x.io", "c@x.io", "C@x.io"}

\* updateMany payloads: a role (null takes the role away) or an email
Payloads ==
    [role : {NULL, "admin", "editor"}, email : {UNSET}]
    \cup [role : {UNSET}, email : Emails]

\* createMany payloads: one or two new users, by their emails
NewUsers == {<<e>> : e \in Emails} \cup {<<e, f>> : e \in Emails, f \in Emails}

\* String.prototype.toLowerCase, and LOWER() of the database
toLowerCase(e) ==
    CASE e = "A@x.io" -> "a@x.io"
      [] e = "C@x.io" -> "c@x.io"
      [] OTHER -> e

\* the comparison of emails as they are written
checkUniqueEmails_CaseSensitive(emails, excludeKey) ==
    IF \/ \E i, j \in DOMAIN emails : i < j /\ emails[i] = emails[j]
       \/ \E u \in directus_users :
             /\ \E i \in DOMAIN emails : u.email = emails[i]
             /\ u.id # excludeKey
    THEN "RecordNotUniqueError"
    ELSE OK

\* checkUniqueEmails(emails, excludeKey): the error it throws, OK when it
\* returns; excludeKey is NONE when it is not given
checkUniqueEmails(emails, excludeKey) ==
    LET lower == [i \in DOMAIN emails |-> toLowerCase(emails[i])]
    IN  IF \/ \E i, j \in DOMAIN lower : i < j /\ lower[i] = lower[j]
           \/ \E u \in directus_users :
                 /\ \E i \in DOMAIN lower : toLowerCase(u.email) = lower[i]
                 /\ u.id # excludeKey
        THEN "RecordNotUniqueError"
        ELSE OK

\* the users the count of checkRemainingAdminExistence counts
otherAdminUsers(excludeKeys) ==
    {u \in directus_users :
        /\ u.id \notin excludeKeys
        /\ \E r \in directus_roles : r.id = u.role /\ r.admin_access}

\* checkRemainingAdminExistence(excludeKeys): the error it throws, OK when it returns
checkRemainingAdminExistence(excludeKeys) ==
    IF otherAdminUsers(excludeKeys) = {} THEN "UnprocessableContentError" ELSE OK

\* a call suspended at an await: err is opts.preMutationError
Call(op, keys, data, items, pc, err) ==
    [op |-> op, keys |-> keys, data |-> data, items |-> items, pc |-> pc, err |-> err]

NoData == [role |-> UNSET, email |-> UNSET]

\* the callers start a call
Starts ==
    /\ started < MaxCalls
    /\ Len(calls) < concurrency
    /\ started' = started + 1

Settles(i, err) ==
    /\ returned' = [op |-> calls[i].op, err |-> err]
    /\ calls' = Without(calls, i)

\* createMany up to its first await of the database: validateEmail and
\* checkUniqueEmails, whose error is kept for super.createMany
createMany(items) ==
    /\ Starts
    /\ calls' = Append(calls, Call("createMany", {}, NoData, items, "super",
                                   checkUniqueEmails(items, NONE)))
    /\ UNCHANGED <<gateway, phoneauth, middleware, directus_users, directus_notifications,
                   directus_versions, next_id, concurrency, returned>>

\* super.createMany: ItemsService throws opts.preMutationError before it
\* writes, and inserts the rows otherwise
superCreateMany(i) ==
    /\ i \in DOMAIN calls
    /\ calls[i].op = "createMany" /\ calls[i].pc = "super"
    /\ IF calls[i].err # OK
       THEN UNCHANGED <<directus_users, next_id>>
       ELSE /\ directus_users' = directus_users \cup
                  {[id |-> next_id + k - 1, role |-> "editor", email |-> calls[i].items[k]] :
                      k \in DOMAIN calls[i].items}
            /\ next_id' = next_id + Len(calls[i].items)
    /\ Settles(i, calls[i].err)
    /\ UNCHANGED <<gateway, phoneauth, middleware, directus_notifications, directus_versions,
                   concurrency, started>>

\* the error of updateMany's checks, in their order: the role, then the email
updateManyChecks(keys, data) ==
    LET newRole == {r \in directus_roles : r.id = data.role}
        demotes == \A r \in newRole : ~r.admin_access
    IN  CASE data.role \notin {UNSET, NULL} /\ demotes
                /\ checkRemainingAdminExistence(keys) # OK ->
                checkRemainingAdminExistence(keys)
          [] data.email # UNSET /\ Cardinality(keys) > 1 -> "RecordNotUniqueError"
          [] data.email # UNSET ->
                checkUniqueEmails(<<data.email>>, CHOOSE k \in keys : TRUE)
          [] OTHER -> OK

\* updateMany up to super.updateMany
updateMany(keys, data) ==
    /\ Starts
    /\ calls' = Append(calls, Call("updateMany", keys, data, <<>>, "super",
                                   updateManyChecks(keys, data)))
    /\ UNCHANGED <<gateway, phoneauth, middleware, directus_users, directus_notifications,
                   directus_versions, next_id, concurrency, returned>>

\* the row of u after the payload is written to it
Updated(u, data) ==
    [u EXCEPT !.role = IF data.role # UNSET THEN data.role ELSE @,
              !.email = IF data.email # UNSET THEN data.email ELSE @]

\* super.updateMany
superUpdateMany(i) ==
    /\ i \in DOMAIN calls
    /\ calls[i].op = "updateMany" /\ calls[i].pc = "super"
    /\ IF calls[i].err # OK
       THEN UNCHANGED directus_users
       ELSE directus_users' =
                {IF u.id \in calls[i].keys THEN Updated(u, calls[i].data) ELSE u :
                    u \in directus_users}
    /\ Settles(i, calls[i].err)
    /\ UNCHANGED <<gateway, phoneauth, middleware, directus_notifications, directus_versions,
                   next_id, concurrency, started>>

\* deleteMany up to its first update: checkRemainingAdminExistence, whose
\* error is kept for super.deleteMany
deleteMany(keys) ==
    /\ Starts
    /\ calls' = Append(calls, Call("deleteMany", keys, NoData, <<>>, "notifications",
                                   checkRemainingAdminExistence(keys)))
    /\ UNCHANGED <<gateway, phoneauth, middleware, directus_users, directus_notifications,
                   directus_versions, next_id, concurrency, returned>>

\* update directus_notifications set sender = null where sender in keys
unlinkNotifications(i) ==
    /\ i \in DOMAIN calls
    /\ calls[i].pc = "notifications"
    /\ directus_notifications' =
          {IF n.sender \in calls[i].keys THEN [n EXCEPT !.sender = NONE] ELSE n :
              n \in directus_notifications}
    /\ calls' = [calls EXCEPT ![i].pc = "versions"]
    /\ UNCHANGED <<gateway, phoneauth, middleware, directus_users, directus_versions, next_id,
                   concurrency, started, returned>>

\* update directus_versions set user_updated = null where user_updated in keys
unlinkVersions(i) ==
    /\ i \in DOMAIN calls
    /\ calls[i].pc = "versions"
    /\ directus_versions' =
          {IF v.user_updated \in calls[i].keys THEN [v EXCEPT !.user_updated = NONE] ELSE v :
              v \in directus_versions}
    /\ calls' = [calls EXCEPT ![i].pc = "super"]
    /\ UNCHANGED <<gateway, phoneauth, middleware, directus_users, directus_notifications, next_id,
                   concurrency, started, returned>>

\* super.deleteMany
superDeleteMany(i) ==
    /\ i \in DOMAIN calls
    /\ calls[i].op = "deleteMany" /\ calls[i].pc = "super"
    /\ IF calls[i].err # OK
       THEN UNCHANGED directus_users
       ELSE directus_users' = {u \in directus_users : u.id \notin calls[i].keys}
    /\ Settles(i, calls[i].err)
    /\ UNCHANGED <<gateway, phoneauth, middleware, directus_notifications, directus_versions,
                   next_id, concurrency, started>>

\* the callers make their calls one after the other, or as they come
UsersInit ==
    /\ GatewayIdle
    /\ MiddlewareIdle
    /\ PhoneIdle
    /\ directus_users = InitialUsers
    /\ directus_notifications = {[id |-> 1, sender |-> 1]}
    /\ directus_versions = {[id |-> 1, user_updated |-> 2]}
    /\ next_id = 3
    /\ calls = <<>>
    /\ concurrency \in {1, MaxCalls}
    /\ started = 0
    /\ returned = [op |-> NULL, err |-> OK]

UsersNext ==
    \/ \E items \in NewUsers : createMany(items)
    \/ \E i \in 1..MaxCalls : superCreateMany(i)
    \/ \E keys \in KeySets : \E data \in Payloads : updateMany(keys, data)
    \/ \E i \in 1..MaxCalls : superUpdateMany(i)
    \/ \E keys \in KeySets : deleteMany(keys)
    \/ \E i \in 1..MaxCalls : unlinkNotifications(i)
    \/ \E i \in 1..MaxCalls : unlinkVersions(i)
    \/ \E i \in 1..MaxCalls : superDeleteMany(i)

UsersSpec == UsersInit /\ [][UsersNext]_vars

\* ========================================================== PhoneAuthDriver
\* the passwords Math.random draws, and those a login is tried with
Otps == {"111111", "222222"}

\* generateHash(otp): argon2 salts, no two hashes are the same
generateHash(otp, salt) == [of |-> otp, salt |-> salt]

\* argon2.verify(hash, password)
argon2Verify(hash, password) == hash.of = password

\* requestOneTimePassword: the hash and its expiry are stored, the password
\* is sent by SMS
requestOneTimePassword(otp) ==
    /\ Len(sms) < MaxOtps
    /\ sms_one_time_password' = Some(generateHash(otp, Len(sms) + 1))
    /\ sms_one_time_password_expire' = now + OtpTTL
    /\ sms' = Append(sms, otp)
    /\ successes' = Append(successes, 0)
    /\ UNCHANGED <<gateway, middleware, usersvc, now, logins>>

\* AuthenticationService.login reads the user's row and hands it to the driver
login(password) ==
    /\ Len(logins) < MaxLogins
    /\ logins' = Append(logins,
          [user |-> [sms_one_time_password |-> sms_one_time_password,
                     sms_one_time_password_expire |-> sms_one_time_password_expire],
           password |-> password, pc |-> "verify"])
    /\ UNCHANGED <<gateway, middleware, usersvc, sms_one_time_password,
                   sms_one_time_password_expire, now, successes, sms>>

\* the condition verify throws InvalidCredentialsError on
verifyFails(user, password) ==
    \/ user.sms_one_time_password_expire = NONE
    \/ user.sms_one_time_password_expire < now
    \/ user.sms_one_time_password = None
    \/ ~argon2Verify(user.sms_one_time_password[1], password)

\* verify(user, password) up to its update: the checks on the row it was given
verify(i) ==
    /\ i \in DOMAIN logins
    /\ logins[i].pc = "verify"
    /\ logins' = [logins EXCEPT ![i].pc =
          IF verifyFails(logins[i].user, logins[i].password) THEN "rejected" ELSE "update"]
    /\ UNCHANGED <<gateway, middleware, usersvc, sms_one_time_password,
                   sms_one_time_password_expire, now, successes, sms>>

\* verify's update: password and expiry are set to null, the login succeeds
verifyUpdate(i) ==
    /\ i \in DOMAIN logins
    /\ logins[i].pc = "update"
    /\ sms_one_time_password' = None
    /\ sms_one_time_password_expire' = NONE
    /\ logins' = [logins EXCEPT ![i].pc = "resolved"]
    /\ successes' = [successes EXCEPT ![logins[i].user.sms_one_time_password[1].salt] = @ + 1]
    /\ UNCHANGED <<gateway, middleware, usersvc, now, sms>>

\* time passes
PhoneTick ==
    /\ now < MaxTime
    /\ now' = now + 1
    /\ UNCHANGED <<gateway, middleware, usersvc, sms_one_time_password,
                   sms_one_time_password_expire, logins, successes, sms>>

PhoneInit == GatewayIdle /\ MiddlewareIdle /\ UsersIdle /\ PhoneIdle

PhoneNext ==
    \/ \E otp \in Otps : requestOneTimePassword(otp)
    \/ \E password \in Otps : login(password)
    \/ \E i \in 1..MaxLogins : verify(i)
    \/ \E i \in 1..MaxLogins : verifyUpdate(i)
    \/ PhoneTick

PhoneSpec == PhoneInit /\ [][PhoneNext]_vars

\* =================================================================== claims
\* an upgrade request of s is taken up by this controller in this step
Upgraded(s) == phase[s] = "new" /\ phase'[s] \notin {"new", "ignored"}

\* C1: when the live-connection count has reached the maximum, an upgrade
\* request on the endpoint is answered 403 and its socket destroyed, in every
\* mode; no WebSocket exists for it, nothing is sent and no record is created,
\* then or later.
C1_DeniedAtLimit ==
    /\ [][\A s \in Sockets :
            Upgraded(s) /\ Cardinality(clients) >= maxConnections =>
                /\ http'[s] = "403"
                /\ phase'[s] = "destroyed"
                /\ ws'[s] = "none"
                /\ clients' = clients
                /\ out' = Quiet]_vars
    /\ [](\A s \in Sockets :
            http[s] = "403" =>
                /\ phase[s] = "destroyed"
                /\ ws[s] = "none"
                /\ s \notin clients
                /\ out.sock # s)

C1_Witness ==
    \E s \in Sockets : http[s] = "403" /\ Cardinality(clients) >= maxConnections

\* C2: the live-connection set never holds more than maxConnections records.
C2_LiveSetBounded == Cardinality(clients) <= maxConnections

\* C3: a connection never has two expiry timers pending, and a pending
\* timer is the one client.auth_timer refers to.
C3_OneTimer ==
    \A s \in Sockets :
        /\ Cardinality(timers[s]) <= 1
        /\ \A x \in timers[s] : x.id = auth_timer[s]

\* a successful auth frame has just armed the timer of a connection
C3_Witness ==
    \E s \in clients :
        /\ out.sock = s
        /\ out.ev[1] = Raised("websocket.auth.success")
        /\ timers[s] = {[id |-> auth_timer[s], at |-> expires_at[s]]}

\* C4: when terminate() returns, the sweep interval is cleared, no
\* connection has an expiry timer or a re-authentication wait pending, and
\* every tracked transport is terminated.
C4_TerminateClearsAll ==
    [][~terminated /\ terminated' =>
            /\ ~authInterval'
            /\ \A s \in Sockets :
                /\ timers'[s] = {}
                /\ phase[s] = "connected" => waits'[s] = {}
                /\ ws'[s] \notin {"open", "closing"}]_vars

\* the query token of a strict upgrade does not resolve to a user
C5_NoUser(tok) ==
    \/ tok.kind \in {"missing", "invalid"}
    \/ ~ResolveToken(tok).ok
    \/ ResolveToken(tok).accountability[1].user = NULL

\* C5: in strict mode an upgrade whose access_token is missing, does not
\* resolve or resolves to no user is answered 401, its socket is destroyed
\* and the live set is unchanged; no record is created for it later either.
C5_StrictRejects ==
    /\ [][\A s \in Sockets :
            phase[s] = "resolving" /\ phase'[s] # "resolving" /\ C5_NoUser(pending[s][1]) =>
                /\ http'[s] = "401"
                /\ phase'[s] = "destroyed"
                /\ ws'[s] = "none"
                /\ clients' = clients
                /\ out' = Quiet]_vars
    /\ [](\A s \in Sockets :
            http[s] = "401" =>
                /\ phase[s] = "destroyed"
                /\ ws[s] = "none"
                /\ s \notin clients
                /\ out.sock # s)

C5_Witness == mode = "strict" /\ \E s \in Sockets : http[s] = "401"

\* the step sends s an authentication-success frame
SendsSuccess(s) ==
    /\ out'.sock = s
    /\ \E i \in DOMAIN out'.ev : out'.ev[i].k = "send" /\ out'.ev[i].code = "ok"

\* C6: in handshake mode the wait for the first frame lasts at most the
\* configured timeout; when it runs out an open connection is sent the
\* handshake-failed error frame and closed, and a connection whose handshake
\* failed is never sent a success frame and never enters the live set.
C6_HandshakeTimeout ==
    /\ [](\A s \in Sockets :
            phase[s] = "handshake" => \E d \in 0..AuthTimeout : waits[s] = {d})
    /\ [][\A s \in Sockets :
            phase[s] = "handshake" /\ phase'[s] # "handshake" /\ inputs' = inputs =>
                /\ 0 \in waits[s]
                /\ phase'[s] = "failed"
                /\ ws[s] = "open" => out' = [sock |-> s, ev |-> <<HandshakeFailed>>]
                /\ ws[s] # "open" => out' = Quiet
                /\ ws'[s] # "open"
                /\ s \notin clients']_vars
    /\ [][\A s \in Sockets :
            phase[s] = "failed" =>
                phase'[s] = "failed" /\ ~SendsSuccess(s) /\ s \notin clients']_vars

\* the handshake of an open connection has just timed out
C6_Witness ==
    \E s \in Sockets :
        /\ phase[s] = "failed"
        /\ inputs = 1
        /\ ws[s] = "closing"
        /\ out = [sock |-> s, ev |-> <<HandshakeFailed>>]

\* C7: in handshake mode the record is created only by the step in which
\* the authentication of the first frame, an auth message, succeeds, and
\* that step sends the success frame (uid echoed, refresh token carried)
\* before it creates the record; a first frame that is no auth message, or
\* whose authentication fails, gets the handshake-failed frame, the
\* connection is closed and no record is created.
C7_HandshakeCreates ==
    /\ [][\A s \in Sockets : \A f \in Frames :
            HandshakeMessage(s, f) =>
                IF f.kind \in {"auth_bad", "auth_login", "auth_token"}
                THEN phase'[s] = "authenticating" /\ pending'[s] = <<f>>
                     /\ out' = Quiet /\ clients' = clients
                ELSE phase'[s] = "failed" /\ ws'[s] = "closing"
                     /\ out' = [sock |-> s, ev |-> <<HandshakeFailed>>]
                     /\ clients' = clients]_vars
    /\ [][\A s \in Sockets :
            phase[s] = "authenticating" /\ phase'[s] # "authenticating" =>
                LET f == pending[s][1]
                    r == authenticateConnection(f)
                IN  IF f.kind = "auth_login" \/ (f.kind = "auth_token" /\ f.exp # 0)
                    THEN /\ phase'[s] = "connected"
                         /\ clients' = clients \cup {s}
                         /\ accountability'[s] = r.accountability
                         /\ expires_at'[s] = r.expires_at
                         /\ out' = [sock |-> s,
                                    ev |-> IF ws[s] = "open"
                                           THEN <<Sent("auth", "ok", f.uid, r.refresh_token),
                                                  Created>>
                                           ELSE <<Created>>]
                    ELSE /\ phase'[s] = "failed"
                         /\ clients' = clients
                         /\ ws'[s] # "open"
                         /\ ws[s] = "open" => out' = [sock |-> s, ev |-> <<HandshakeFailed>>]]_vars
    /\ [][\A s \in Sockets :
            mode = "handshake" /\ s \notin clients /\ s \in clients' =>
                phase[s] = "authenticating"]_vars

\* the success frame of a login, then the record
C7_Witness ==
    \E s \in clients :
        /\ mode = "handshake"
        /\ out = [sock |-> s, ev |-> <<Sent("auth", "ok", "uid", "refresh"), Created>>]
        /\ accountability[s] = <<UserAccountability>>

\* C8, as amended: in public mode an upgrade below the connection limit is
\* accepted at once and the record it creates has a null accountability, a
\* null expiry and no expiry timer.
C8_PublicAcceptsNull ==
    [][\A s \in Sockets :
            Upgraded(s) /\ mode = "public" /\ Cardinality(clients) < maxConnections =>
                /\ http'[s] = "101"
                /\ ws'[s] = "open"
                /\ phase'[s] = "connected"
                /\ clients' = clients \cup {s}
                /\ accountability'[s] = None
                /\ expires_at'[s] = NONE
                /\ auth_timer'[s] = NONE
                /\ timers'[s] = {}
                /\ out' = [sock |-> s, ev |-> <<Created>>]]_vars

C8_Witness ==
    \E s \in clients :
        /\ mode = "public"
        /\ out = [sock |-> s, ev |-> <<Created>>]
        /\ accountability[s] = None
        /\ expires_at[s] = NONE

\* C8 as stated: the record carries the anonymous accountability
\* {user: null, role: null, admin: false, app: false}.
C8_PublicAcceptsAnonymous ==
    [][\A s \in Sockets :
            Upgraded(s) /\ mode = "public" /\ Cardinality(clients) < maxConnections =>
                /\ clients' = clients \cup {s}
                /\ accountability'[s] = <<Anonymous>>
                /\ expires_at'[s] = NONE
                /\ timers'[s] = {}]_vars

\* C9: on a live connection without accountability, the step that
\* completes a valid auth frame sets accountability and expiry to the
\* resolved values, leaves exactly the timer the new expiry calls for (none
\* when the expiry is null or further away than the sweep interval), raises
\* websocket.auth.success once and sends one success frame with the frame's
\* uid and the refresh token; nothing else is sent or raised and the
\* connection stays open.
C9_ValidAuth ==
    [][\A s \in clients : \A i \in DOMAIN tasks[s] :
            /\ handleAuthRequest(s, i)
            /\ ws[s] = "open"
            /\ accountability[s] = None
            /\ tasks[s][i].f.kind = "auth_login"
                    \/ (tasks[s][i].f.kind = "auth_token" /\ tasks[s][i].f.exp # 0)
            => LET f == tasks[s][i].f
                   exp == IF f.kind = "auth_login" THEN AccessTokenTTL ELSE f.exp
                   rt == IF f.kind = "auth_login" THEN "refresh" ELSE NULL
               IN  /\ accountability'[s] = <<UserAccountability>>
                   /\ expires_at'[s] = exp
                   /\ IF exp # NONE /\ exp <= TOKEN_CHECK_INTERVAL
                      THEN auth_timer'[s] # NONE
                           /\ timers'[s] = {[id |-> auth_timer'[s], at |-> exp]}
                      ELSE auth_timer'[s] = NONE /\ timers'[s] = {}
                   /\ out' = [sock |-> s,
                              ev |-> <<Raised("websocket.auth.success"),
                                       Sent("auth", "ok", f.uid, rt)>>]
                   /\ ws'[s] = "open"
                   /\ s \in clients']_vars

\* a login has just authenticated a connection and armed its timer
C9_Witness ==
    \E s \in clients :
        /\ ws[s] = "open"
        /\ out = [sock |-> s,
                  ev |-> <<Raised("websocket.auth.success"),
                           Sent("auth", "ok", "uid", "refresh")>>]
        /\ accountability[s] = <<UserAccountability>>
        /\ expires_at[s] = AccessTokenTTL
        /\ timers[s] # {}

\* what C10 requires of the step that handles an invalid or failing auth frame
C10_Failure(s, uid) ==
    /\ accountability'[s] = None
    /\ expires_at'[s] = NONE
    /\ out' = [sock |-> s, ev |-> <<Raised("websocket.auth.failure"), AuthFailed(uid)>>]
    /\ ws'[s] = IF mode = "public" THEN "open" ELSE "closing"

\* the handler of frame f on connection s gets past the rate limiter in this step
C10_Handled(s, f) ==
    \/ ~rateLimiter /\ Message(s, f)
    \/ \E i \in DOMAIN tasks[s] : tasks[s][i].f = f /\ ConsumeResolved(s, i)

\* C10: on a live connection every failing auth frame, and every frame of
\* type auth that fails the auth-message schema, leaves accountability and
\* expiry null, raises websocket.auth.failure once, sends one auth-failure
\* frame, and closes the connection if and only if the mode is not public.
C10_InvalidAuth ==
    /\ [][\A s \in clients : \A i \in DOMAIN tasks[s] :
            /\ handleAuthRequest(s, i)
            /\ ws[s] = "open"
            /\ ~authenticateConnection(tasks[s][i].f).ok
            => C10_Failure(s, tasks[s][i].f.uid)]_vars
    /\ [][\A s \in clients : \A f \in Frames :
            /\ f.kind = "auth_noschema"
            /\ ws[s] = "open"
            /\ C10_Handled(s, f)
            => C10_Failure(s, f.uid)]_vars

\* the part of C10 that is about frames that pass the auth-message schema
C10_FailingAuth ==
    [][\A s \in clients : \A i \in DOMAIN tasks[s] :
            /\ handleAuthRequest(s, i)
            /\ ws[s] = "open"
            /\ ~authenticateConnection(tasks[s][i].f).ok
            => C10_Failure(s, tasks[s][i].f.uid)]_vars

\* the step sends s an AUTH_TIMEOUT frame
SendsAuthTimeout(s) ==
    /\ out'.sock = s
    /\ \E i \in DOMAIN out'.ev : out'.ev[i] = AuthTimedOut

\* C11: when the expiry timer of an open connection fires, accountability
\* and expiry are cleared, the token-expired frame is sent and a wait of the
\* auth timeout starts; time does not pass a wait that has run out; when it
\* runs out the AUTH_TIMEOUT frame is sent and the connection is closed if
\* and only if the mode is not public; a frame of type auth ends the wait,
\* and AUTH_TIMEOUT is sent by no step but the running out of a wait.
C11_TokenExpiry ==
    /\ [][\A s \in Sockets : \A t \in timers[s] :
            TokenExpires(s, t) /\ ws[s] = "open" =>
                /\ accountability'[s] = None
                /\ expires_at'[s] = NONE
                /\ out' = [sock |-> s, ev |-> <<TokenExpired>>]
                /\ AuthTimeout \in waits'[s]
                /\ ws'[s] = "open"]_vars
    /\ [](\A s \in Sockets : \A d \in waits[s] : d \in 0..AuthTimeout)
    /\ [][(\E s \in Sockets : 0 \in waits[s]) => ~Tick]_vars
    /\ [][\A s \in Sockets : \A d \in waits[s] :
            ReauthTimeout(s, d) /\ ws[s] = "open" =>
                /\ out' = [sock |-> s, ev |-> <<AuthTimedOut>>]
                /\ ws'[s] = IF mode = "public" THEN "open" ELSE "closing"
                /\ clients' = clients]_vars
    /\ [][\A s \in Sockets : \A f \in Frames :
            Message(s, f) /\ IsAuthType(f) => waits'[s] = {}]_vars
    /\ [][\A s \in Sockets :
            SendsAuthTimeout(s) => phase[s] = "connected" /\ 0 \in waits[s]]_vars

\* the wait of an expired connection has just run out in a mode that is not public
C11_Witness ==
    \E s \in clients :
        /\ mode # "public"
        /\ out = [sock |-> s, ev |-> <<AuthTimedOut>>]
        /\ ws[s] = "closing"
        /\ accountability[s] = None
        /\ expires_at[s] = NONE

\* C12: once the close event of a connection has been handled, the
\* connection has no record in the live set and no expiry timer pending, and
\* this stays so whatever follows.
C12_ClosedIsTerminal ==
    \A s \in Sockets : ws[s] = "closed" => s \notin clients /\ timers[s] = {}

\* the handlers of connection s that are suspended in handleAuthRequest
AuthTasks(t) == {i \in DOMAIN t : t[i].pc = "auth"}

\* C13: a frame that reaches the message handler of an open connection is,
\* in the step that decodes it, answered with an error frame, handed off, or
\* passed to handleAuthRequest; and a frame that arrives in handshake mode
\* while the first frame is being authenticated has an outcome too.
C13_NoSilentDrop ==
    /\ [][\A s \in clients : \A f \in Frames :
            ws[s] = "open" /\ C10_Handled(s, f) =>
                \/ out'.sock = s /\ out'.ev # <<>>
                \/ Cardinality(AuthTasks(tasks'[s])) > Cardinality(AuthTasks(tasks[s]))]_vars
    /\ [][\A s \in Sockets : \A f \in Frames :
            HandshakeUnheard(s, f) => out'.sock = s /\ out'.ev # <<>>]_vars

\* the handler at position i of connection s is past the limiter's gate in
\* this step and hands its frame off
HandsOff(s, i) == ConsumeResolved(s, i) /\ tasks[s][i].f.kind = "other"

\* C14: a frame is handed off only when no frame that arrived before it on
\* the same connection is still waiting for the rate limiter and will be
\* handed off after it.
C14_HandOffInOrder ==
    [][\A s \in Sockets : \A i \in DOMAIN tasks[s] :
            HandsOff(s, i) =>
                \A j \in 1..(i - 1) :
                    ~(tasks[s][j].pc = "consumed" /\ tasks[s][j].f.kind = "other")]_vars

\* C15: the handler of a frame starts only when no handler of an earlier
\* frame of the same connection is suspended at an await, and a frame that
\* arrived after an auth frame is not handed off while that auth frame is
\* still being authenticated.
C15_OneAtATime ==
    /\ [][\A s \in Sockets : \A f \in Frames :
            Message(s, f) => tasks[s] = <<>>]_vars
    /\ [][\A s \in Sockets : \A i \in DOMAIN tasks[s] :
            HandsOff(s, i) => \A j \in 1..(i - 1) : tasks[s][j].pc # "auth"]_vars

\* the handlers of connection s whose consume was rejected
LimitedTasks(t) == {i \in DOMAIN t : t[i].pc = "limited"}

Record(s) ==
    <<accountability[s], expires_at[s], auth_timer[s], timers[s], s \in clients, ws[s]>>

\* C17: neither the arrival of a frame beyond the limit nor its rejection
\* changes the connection: the transport stays as it was and accountability,
\* expiry, timer and membership of the live set are the same before and
\* after, in every mode.
C17_RejectionDropsFrameOnly ==
    /\ [][\A s \in Sockets : \A f \in Frames :
            Message(s, f) /\ rateLimiter /\ consumed[s].points = RatePoints =>
                Record(s)' = Record(s)]_vars
    /\ [][\A s \in Sockets :
            Cardinality(LimitedTasks(tasks'[s])) < Cardinality(LimitedTasks(tasks[s])) =>
                Record(s)' = Record(s) /\ phase'[s] = phase[s]]_vars

\* an authenticated strict-mode connection is still open after a rejection
C17_Witness ==
    \E s \in clients :
        /\ mode = "strict"
        /\ out = [sock |-> s, ev |-> <<RequestsExceeded>>]
        /\ ws[s] = "open"
        /\ accountability[s] = <<UserAccountability>>

C19_InvalidPayload ==
    [][\A s \in clients : \A f \in Frames :
            ws[s] = "open" /\ f.kind = "garbage" /\ C10_Handled(s, f) =>
                /\ out' = [sock |-> s, ev |-> <<InvalidPayload>>]
                /\ Cardinality(AuthTasks(tasks'[s])) = Cardinality(AuthTasks(tasks[s]))
                /\ Record(s)' = Record(s)
                /\ phase'[s] = phase[s]]_vars

\* an authenticated connection has just been sent INVALID_PAYLOAD
C19_Witness ==
    \E s \in clients :
        /\ out = [sock |-> s, ev |-> <<InvalidPayload>>]
        /\ ws[s] = "open"
        /\ accountability[s] = <<UserAccountability>>

\* the step handles, or goes on handling, a frame received on connection a
FrameStep(a) ==
    \/ \E f \in Frames : HandshakeMessage(a, f) \/ HandshakeUnheard(a, f) \/ Message(a, f)
    \/ HandshakeAuthenticated(a)
    \/ \E i \in DOMAIN tasks[a] :
            ConsumeResolved(a, i) \/ ConsumeRejected(a, i) \/ handleAuthRequest(a, i)

\* C20: a step that handles a frame of connection a, whatever the frame,
\* leaves every other connection as it was (record, transport, waits,
\* suspended handlers, rate-limiter key, place in the upgrade) and sends and
\* raises nothing for any connection but a; so what another connection
\* observes does not depend on a's frames.
C20_FramesAreLocal ==
    [][\A a \in Sockets :
            FrameStep(a) =>
                /\ out'.sock \in {0, a}
                /\ \A b \in Sockets \ {a} :
                    /\ Record(b)' = Record(b)
                    /\ phase'[b] = phase[b]
                    /\ http'[b] = http[b]
                    /\ pending'[b] = pending[b]
                    /\ waits'[b] = waits[b]
                    /\ tasks'[b] = tasks[b]
                    /\ consumed'[b] = consumed[b]]_vars

\* two connections are live and one of them has just had a frame answered
C20_Witness ==
    \E a \in clients : \E b \in clients \ {a} :
        /\ ws[a] = "open"
        /\ ws[b] = "open"
        /\ out = [sock |-> a, ev |-> <<InvalidPayload>>]
        /\ accountability[b] = <<UserAccountability>>

\* the step sends a frame to connection s
SendsFrame(s) ==
    /\ out'.sock = s
    /\ \E i \in DOMAIN out'.ev : out'.ev[i].k = "send"

\* C21: when the authentication of an auth frame completes after the close
\* event of its connection, the step arms no expiry timer, leaves the record
\* out of the live set and sends no frame.
C21_LateAuthHasNoEffect ==
    [][\A s \in Sockets : \A i \in DOMAIN tasks[s] :
            handleAuthRequest(s, i) /\ ws[s] = "closed" =>
                /\ timers'[s] = {}
                /\ auth_timer'[s] = NONE
                /\ s \notin clients'
                /\ ~SendsFrame(s)]_vars

\* C22: in strict mode a record is created only by the step that resolves
\* the access_token of its upgrade, with the user's accountability and the
\* token's expiry attached, and with the expiry timer that expiry calls for;
\* the connection's non-auth frames are handed off from the first frame on.
C22_StrictIsAuthenticated ==
    /\ [][\A s \in Sockets :
            mode = "strict" /\ s \notin clients /\ s \in clients' =>
                /\ phase[s] = "resolving"
                /\ pending[s][1].kind = "user"
                /\ accountability'[s] # None
                /\ accountability'[s][1].user # NULL
                /\ expires_at'[s] = pending[s][1].exp
                /\ IF expires_at'[s] # NONE /\ expires_at'[s] <= TOKEN_CHECK_INTERVAL
                   THEN timers'[s] = {[id |-> auth_timer'[s], at |-> expires_at'[s]]}
                   ELSE timers'[s] = {} /\ auth_timer'[s] = NONE
                /\ ws'[s] = "open"
                /\ out' = [sock |-> s, ev |-> <<Created>>]]_vars
    /\ [][\A s \in Sockets : \A f \in Frames :
            mode = "strict" /\ C10_Handled(s, f) /\ f.kind = "other" =>
                out' = [sock |-> s, ev |-> <<HandedOff(f.uid)>>]]_vars

\* the first frame of a strict-mode connection, not an auth frame, is handed off
C22_Witness ==
    \E s \in clients :
        /\ mode = "strict"
        /\ inputs = 2
        /\ out = [sock |-> s, ev |-> <<HandedOff("uid")>>]
        /\ accountability[s] = <<UserAccountability>>
        /\ expires_at[s] = TokenExp

\* C30: a connection has a pending expiry timer only while its expiry is not
\* null: once a failing auth frame has cleared accountability and expiry, no
\* timer armed before it is left pending, so no token-expired frame goes to
\* a connection that is anonymous already.
C30_TimerOnlyWithExpiry ==
    \A s \in Sockets : timers[s] # {} => expires_at[s] # NONE

\* C25: an upgrade request on a path other than the controller's endpoint is
\* ignored by the controller: nothing is written to its socket, the socket is
\* not destroyed, no WebSocket is made of it and no state of the controller
\* changes, in that step or later, so the request is left whole to the
\* controller whose endpoint it names.
C25_OtherPathIgnored ==
    [][\A s \in Sockets :
          /\ phase[s] = "new" /\ phase'[s] = "ignored" =>
                /\ out' = Quiet
                /\ UNCHANGED <<services, listeners, mode, rateLimiter, nextSweep, authInterval, terminated,
                               clients, http, ws, pending, accountability, expires_at,
                               auth_timer, timers, waits, tasks, consumed>>
          /\ phase[s] = "ignored" =>
                /\ phase'[s] = "ignored"
                /\ http'[s] = NULL /\ ws'[s] = "none" /\ s \notin clients'
                /\ pending'[s] = None /\ timers'[s] = {} /\ waits'[s] = {}
                /\ tasks'[s] = <<>> /\ out'.sock # s]_vars

C25_Witness ==
    \E s \in Sockets :
        /\ phase[s] = "ignored" /\ http[s] = NULL /\ ws[s] = "none"
        /\ \E r \in clients : r > s /\ ws[r] = "open"
        /\ inputs = MaxInputs

\* C26: from the call of terminate() on, no frame is sent on any connection:
\* no error frame, success frame, token-expired frame or auth-timeout frame,
\* whether by an expiry timer, a re-authentication wait or an auth frame that
\* was pending at the call.
C26_SilentAfterTerminate ==
    [][terminated => \A s \in Sockets : ~SendsFrame(s)]_vars

\* the defensive listener is the first thing put on the transport of s
Guarded(s) == listeners[s] # <<>> /\ listeners[s][1] = "data:catchInvalidMessages"

\* C27: on every accept path (public, strict, handshake) the defensive data
\* listener is installed on the transport before any of its frames is read
\* or parsed: before the handshake wait listens and before the connection
\* event creates the record with its message handler.
C27_GuardedFirst ==
    \A s \in Sockets :
        \/ ws[s] # "none" \/ listeners[s] # <<>> \/ s \in clients
        \/ waits[s] # {} \/ tasks[s] # <<>> \/ phase[s] \in {"handshake", "authenticating", "connected"}
        => Guarded(s)

C27_Witness ==
    \E s \in clients :
        /\ mode = "handshake" /\ tasks[s] # <<>>
        /\ listeners[s] = <<"data:catchInvalidMessages", "error:catchInvalidMessages",
                            "message:waitForAnyMessage", "message:createClient",
                            "error:createClient", "close:createClient">>

\* what a stored flag is meant to say: true for true, 1 and "1", false for
\* false, 0 and "0"
Intent(x) == x \in {[t |-> "boolean", v |-> "true"], [t |-> "number", v |-> "1"],
                    [t |-> "string", v |-> "1"]}

\* C23: for a signed token and for a static token alike, whose admin_access
\* and app_access are given as a boolean, as 0/1 or as "0"/"1", the resolved
\* accountability's admin and app flags are strict booleans: false for false,
\* 0 and "0", true for true, 1 and "1".
C23_FlagsNormalised ==
    handler = "done" /\ ~req[1].filtered /\ req[1].token \in {"jwt", "static"} =>
        /\ req_accountability[1].admin \in BOOLEAN
        /\ req_accountability[1].app \in BOOLEAN
        /\ req_accountability[1].admin = Intent(req[1].admin_access)
        /\ req_accountability[1].app = Intent(req[1].app_access)

C23_Witness ==
    /\ handler = "done" /\ req # None /\ ~req[1].filtered /\ req[1].token = "static"
    /\ req[1].admin_access = [t |-> "string", v |-> "0"]
    /\ req[1].app_access = [t |-> "string", v |-> "1"]
    /\ req_accountability = Some([user |-> "user", role |-> "role", admin |-> FALSE, app |-> TRUE])

\* C24: when the static token of a request matches no user record, the
\* authenticate handler fails with InvalidCredentialsError and never calls
\* next; whenever the handler completes without an error it has called next
\* exactly once.
C24_NextOnceOrThrow ==
    /\ next_calls <= 1
    /\ handler = "done" => thrown = NULL /\ next_calls = 1
    /\ handler = "failed" => thrown # NULL /\ next_calls = 0
    /\ thrown # NULL => handler = "failed"
    /\ /\ handler \in {"done", "failed"}
       /\ req[1].token = "static" /\ ~req[1].found /\ ~req[1].filtered
       => handler = "failed" /\ thrown = "InvalidCredentialsError"

C24_Witness ==
    /\ handler = "failed" /\ req # None /\ req[1].token = "static" /\ ~req[1].found
    /\ thrown = "InvalidCredentialsError" /\ next_calls = 0
    /\ req_accountability = None

\* C28: after any sequence and any interleaving of deleteMany calls and of
\* updateMany calls that change roles, at least one user whose role has
\* admin_access remains.
C28_AdminRemains == otherAdminUsers({}) # {}

\* two addresses that are equal but for the case of their letters
SameAddress(e, f) ==
    \/ e = f
    \/ {e, f} \in {{"a@x.io", "A@x.io"}, {"c@x.io", "C@x.io"}}

\* the emails of a createMany collide with each other or with a stored one
CreateCollides(c) ==
    \/ \E i, j \in DOMAIN c.items : i < j /\ SameAddress(c.items[i], c.items[j])
    \/ \E u \in directus_users : \E i \in DOMAIN c.items : SameAddress(u.email, c.items[i])

\* an updateMany sets one email to several users, or one that another user holds
UpdateCollides(c) ==
    /\ c.data.email # UNSET
    /\ \/ Cardinality(c.keys) > 1
       \/ \E u \in directus_users : u.id \notin c.keys /\ SameAddress(u.email, c.data.email)

\* C29: when the calls run one after the other, after any sequence of
\* createMany and updateMany calls no two users have emails that are equal
\* ignoring case: a create whose emails collide with each other or with a
\* stored one, and an update that sets an email to several users or to one
\* another user holds, is refused with RecordNotUniqueError and writes nothing.
C29_EmailsUnique ==
    [][concurrency = 1 =>
          /\ \A u, v \in directus_users' : u.id # v.id => ~SameAddress(u.email, v.email)
          /\ \A i \in DOMAIN calls :
                /\ superCreateMany(i) /\ CreateCollides(calls[i]) =>
                      returned'.err = "RecordNotUniqueError" /\ UNCHANGED directus_users
                /\ superUpdateMany(i) /\ UpdateCollides(calls[i]) =>
                      returned'.err = "RecordNotUniqueError" /\ UNCHANGED directus_users]_vars

C29_Witness ==
    /\ concurrency = 1 /\ started = MaxCalls /\ calls = <<>>
    /\ returned = [op |-> "createMany", err |-> "RecordNotUniqueError"]
    /\ \E u \in directus_users : u.id = 3 /\ u.email = "C@x.io"
    /\ Cardinality(directus_users) = 3 /\ next_id = 4

\* C31: the re-authentication wait sends AUTH_TIMEOUT to a connection, and
\* closes it, only if the connection is unauthenticated when the wait ends:
\* an auth frame that was being processed when the expiry timer fired and
\* then succeeds leaves the connection authenticated and open.
C31_TimeoutOnlyIfUnauthenticated ==
    [][\A s \in Sockets : \A d \in waits[s] :
          ReauthTimeout(s, d) /\ (SendsAuthTimeout(s) \/ ws'[s] # ws[s])
              => accountability[s] = None]_vars

\* C32: after terminate() no new connection is accepted: an upgrade request
\* that arrives on the endpoint after terminate() creates no connection
\* record and arms no timer.
C32_NoAcceptAfterTerminate ==
    [][\A s \in Sockets :
          terminated /\ phase[s] = "new" /\ phase'[s] # "new" =>
              /\ ws'[s] = "none" /\ http'[s] # "101"
              /\ s \notin clients' /\ timers'[s] = {} /\ waits'[s] = {}]_vars

\* C34: a deleteMany that is refused changes no stored data: when the
\* last-admin check fails, neither the users nor the references to the given
\* keys in directus_notifications.sender and directus_versions.user_updated
\* are modified.
C34_RefusedDeleteWritesNothing ==
    [][\A i \in DOMAIN calls :
          /\ calls[i].op = "deleteMany" /\ calls[i].err # OK
          /\ unlinkNotifications(i) \/ unlinkVersions(i) \/ superDeleteMany(i)
          => UNCHANGED <<directus_users, directus_notifications, directus_versions>>]_vars

\* C33: a one-time password issued by requestOneTimePassword lets at most one
\* verify succeed, also when two verify calls for the same user and password
\* run at the same time; a successful verify leaves the stored password and
\* its expiry null, and a verify after the stored expiry fails.
C33_SingleUse ==
    [][/\ \A n \in DOMAIN successes' : successes'[n] <= 1
       /\ \A i \in DOMAIN logins :
             /\ verifyUpdate(i) =>
                   sms_one_time_password' = None /\ sms_one_time_password_expire' = NONE
             /\ verify(i) /\ logins[i].user.sms_one_time_password_expire < now =>
                   logins'[i].pc = "rejected"]_vars
====
